---- MODULE Spec2Model ----
(***************************************************************************)
(* The agent loop of rag-agent_deepseek_alphabet.ipynb: the AgentExecutor  *)
(* built in the notebook (agent=chain, tools=tools,                        *)
(* handle_parsing_errors=True), its chain (scratchpad | prompt | llm |     *)
(* JSONAgentOutputParser) and its two tools.  One query is run by          *)
(* agent_executor.invoke; the language model and the two search back ends  *)
(* are external, so what they answer is a nondeterministic choice.         *)
(***************************************************************************)
EXTENDS Naturals, Sequences, FiniteSets, TLC

\* ---------------------------------------------------------------- bounds
\* AgentExecutor(...) is built without max_iterations, so the executor's
\* default of 15 applies; the model runs it with a smaller value.
max_iterations == 3

\* ------------------------------------------------------------- constants
\* names of the two Tool(...) entries, in list order
ToolNames == <<"VectorStoreSearch", "WebSearch">>

Registered == {ToolNames[i] : i \in 1..Len(ToolNames)}

\* ", ".join([t.name for t in tools])
tool_names == "VectorStoreSearch, WebSearch"

\* the action value that ends the loop (system_prompt, JSONAgentOutputParser)
FinalAnswer == "Final Answer"

\* a tool name the model may invent although it is not in tools
UnknownTools == {"Calculator"}

\* marks a key that the JSON object of an output does not have
Absent == "<absent>"

\* the default the parser substitutes for a tool action without action_input
EmptyDict == "{}"

\* a plausible change: return_intermediate_steps=True passed to AgentExecutor
return_intermediate_steps_Set == TRUE

\* AgentExecutor is built without return_intermediate_steps (default False)
return_intermediate_steps == FALSE

\* output of a run that ended because the iterations ran out
\* (early_stopping_method is left at "force")
StopMessage == "Agent stopped due to iteration limit or time limit."

\* observation given back for an output the parser rejects
\* (handle_parsing_errors=True)
ParseErrorObservation == "Invalid or incomplete response"

\* tool name recorded for an output the parser rejects
ExceptionTool == "_Exception"

\* the queries given to invoke in the model
QueryInputs == {"q1", "q2"}

\* the action_input strings the language model may write
GivenInputs == {"i1", "i2"}

\* the strings a search may return
Results == {"r1", "r2"}

\* ------------------------------------------------- the language model's text
\* A raw output of llm is kept as what it holds: no JSON at all, or a first
\* JSON object with or without the keys action and action_input, and, for
\* an output of several blobs, the text after the first one (rest): an
\* observation llm made up and further JSON objects.
InvalidJSON == [json |-> FALSE, action |-> Absent, action_input |-> Absent]

\* the observation an output of several blobs makes up for its own action
InventedObservation == "invented"

\* outputs of several blobs: a tool action, a made-up observation and a
\* Final Answer (the first recorded run), and a Final Answer before a tool
MultiBlobOutputs ==
    [json : {TRUE}, action : Registered, action_input : {"i1"},
     rest : {<<[observation |-> InventedObservation],
              [action |-> FinalAnswer, action_input |-> "i2"]>>}]
    \cup
    {[json |-> TRUE, action |-> FinalAnswer, action_input |-> "i1",
      rest |-> <<[action |-> "WebSearch", action_input |-> "i2"]>>]}

LLMOutputs ==
    {InvalidJSON} \cup
    [json : {TRUE},
     action : Registered \cup {FinalAnswer} \cup UnknownTools \cup {Absent},
     action_input : GivenInputs \cup {Absent}]
    \cup MultiBlobOutputs

NoOutput == [json |-> FALSE, action |-> "", action_input |-> ""]

\* -------------------------------------------------------------- the parser
\* JSONAgentOutputParser.parse: any exception while reading the object
\* (no JSON, no "action" key, "Final Answer" without "action_input") is an
\* OutputParserException; "Final Answer" is an AgentFinish; any other action
\* is an AgentAction whose input defaults to {} when action_input is absent.
\* a plausible slip: the last JSON object of the text read, not the first
parse_json_markdown_LastBlob(text) ==
    IF "rest" \in DOMAIN text
    THEN [json |-> TRUE,
          action |-> text.rest[Len(text.rest)].action,
          action_input |-> text.rest[Len(text.rest)].action_input]
    ELSE [json |-> text.json, action |-> text.action,
          action_input |-> text.action_input]

\* parse_json_markdown: the first JSON object of the text is read; what
\* follows it in the text is dropped.
parse_json_markdown(text) ==
    [json |-> text.json, action |-> text.action,
     action_input |-> text.action_input]

ParseFails(text) ==
    LET response == parse_json_markdown(text)
    IN  \/ ~response.json
        \/ response.action = Absent
        \/ response.action = FinalAnswer /\ response.action_input = Absent

IsAgentFinish(text) ==
    ~ParseFails(text) /\ parse_json_markdown(text).action = FinalAnswer

IsAgentAction(text) ==
    ~ParseFails(text) /\ parse_json_markdown(text).action # FinalAnswer

\* a plausible slip: the finish built from the wrong key
AgentFinish_FromAction(text) ==
    [output |-> parse_json_markdown(text).action, log |-> text]

AgentFinish(text) ==
    [output |-> parse_json_markdown(text).action_input, log |-> text]

AgentAction(text) ==
    LET response == parse_json_markdown(text)
    IN  [tool |-> response.action,
         tool_input |-> IF response.action_input = Absent THEN EmptyDict
                        ELSE response.action_input,
         log |-> text]

\* the step recorded for an output the parser rejects: its log is the
\* exception's message, which quotes the output
ExceptionAction(text) ==
    [tool |-> ExceptionTool,
     tool_input |-> ParseErrorObservation,
     log |-> [message |-> "Could not parse LLM output: ", text |-> text]]

\* InvalidTool: the observation for an action naming no entry of tools
InvalidToolObservation(name) ==
    name \o " is not a valid tool, try one of [" \o tool_names \o "]."

AgentStep(action, observation) == [action |-> action, observation |-> observation]

\* ------------------------------------------------------------------ state
VARIABLES
    pc,                 \* where invoke stands: Idle, Loop, Parsing, Acting, Done, Raised
    input,              \* the query given to invoke
    intermediate_steps, \* the (action, observation) steps of this query
    iterations,         \* completed iterations of the executor's loop
    llm_output,         \* the text the chain's llm returned last
    pending,            \* the action whose tool call is under way
    returned,           \* the dict invoke returned
    raised,             \* the exception that left invoke
    dispatched,         \* history: the tool.run calls made, in order
    llm_calls,          \* history: calls of llm made by the chain
    qa_calls,           \* history: calls of llm made inside vector_search
    llm_log,            \* history: prompt and answer of each chain call of this query
    other,              \* the locals of the other invoke of agent_executor
    overlap             \* history: when the second invoke began: none, during, after

vars == <<pc, input, intermediate_steps, iterations, llm_output, pending,
          returned, raised, dispatched, llm_calls, qa_calls, llm_log, other,
          overlap>>

NoAction == [tool |-> "", tool_input |-> "", log |-> NoOutput]

NotReturned == [input |-> "", output |-> ""]

\* the locals of an invoke that has not started
IdleFrame ==
    [pc |-> "Idle", input |-> "", intermediate_steps |-> <<>>, iterations |-> 0,
     llm_output |-> NoOutput, pending |-> NoAction, returned |-> NotReturned,
     raised |-> "", dispatched |-> <<>>, llm_log |-> <<>>]

Init ==
    /\ pc = "Idle"
    /\ input = ""
    /\ intermediate_steps = <<>>
    /\ iterations = 0
    /\ llm_output = NoOutput
    /\ pending = NoAction
    /\ returned = NotReturned
    /\ raised = ""
    /\ dispatched = <<>>
    /\ llm_calls = 0
    /\ qa_calls = 0
    /\ llm_log = <<>>
    /\ other = IdleFrame
    /\ overlap = "none"

\* ------------------------------------------------------------ the chain
\* a plausible slip: only the newest step rendered
format_log_to_str_LastOnly(steps) ==
    IF steps = <<>> THEN <<>>
    ELSE <<[prefix |-> "", log |-> steps[Len(steps)].action.log,
            text |-> "", suffix |-> ""],
           [prefix |-> "Observation: ", log |-> NoOutput,
            text |-> steps[Len(steps)].observation, suffix |-> "Thought: "]>>

\* a plausible slip: the observations rendered without the logs
format_log_to_str_ObservationsOnly(steps) ==
    [i \in 1..Len(steps) |->
        [prefix |-> "Observation: ", log |-> NoOutput,
         text |-> steps[i].observation, suffix |-> "Thought: "]]

\* format_log_to_str(x["intermediate_steps"]): for each step, in order, the
\* action's log, then "Observation: " with the observation and the
\* closing "Thought: ". The text is kept as its pieces, two per step.
format_log_to_str(steps) ==
    [i \in 1..(2 * Len(steps)) |->
        IF i % 2 = 1
        THEN [prefix |-> "", log |-> steps[(i + 1) \div 2].action.log,
              text |-> "", suffix |-> ""]
        ELSE [prefix |-> "Observation: ", log |-> NoOutput,
              text |-> steps[i \div 2].observation, suffix |-> "Thought: "]]

\* What the chain hands to llm: human_prompt's {input} and
\* {agent_scratchpad}; the system message is the same text in every call.
Prompt ==
    [input |-> input, agent_scratchpad |-> format_log_to_str(intermediate_steps)]

\* ------------------------------------------------------------- the loop
\* plausible slips: the loop condition off by one, either way
ShouldContinue_StopsEarly(n) == n + 1 < max_iterations

ShouldContinue_StopsLate(n) == n <= max_iterations

\* a plausible change: the executor built with max_iterations=None
ShouldContinue_NoLimit(n) == n >= 0

\* The executor's loop condition: iterations < max_iterations
\* (no max_execution_time is configured).
ShouldContinue(n) == n < max_iterations

\* a plausible change: the steps always handed back with the output
Return_WithSteps(output, steps) ==
    [input |-> input, output |-> output, intermediate_steps |-> steps]

\* What invoke hands back for a finished run: the inputs merged with the
\* return values, and the steps only if return_intermediate_steps is set.
Return(output, steps) ==
    IF return_intermediate_steps
    THEN [input |-> input, output |-> output, intermediate_steps |-> steps]
    ELSE [input |-> input, output |-> output]

\* agent_executor.invoke({"input": q})
Invoke(q) ==
    /\ pc = "Idle"
    /\ input' = q
    /\ intermediate_steps' = <<>>
    /\ iterations' = 0
    /\ pc' = "Loop"
    /\ UNCHANGED <<llm_output, pending, returned, raised, dispatched,
                   llm_calls, qa_calls,
                   llm_log, other, overlap>>

\* a plausible slip: llm asked again without waiting for the tool under way
Plan_NoWait(text) ==
    /\ pc \in {"Loop", "Acting"}
    /\ ShouldContinue(iterations)
    /\ llm_output' = text
    /\ llm_calls' = llm_calls + 1
    /\ llm_log' = Append(llm_log, [prompt |-> Prompt, output |-> text])
    /\ pc' = "Parsing"
    /\ UNCHANGED <<input, intermediate_steps, iterations, pending, returned,
                   raised, dispatched, qa_calls,
                   other, overlap>>

\* One pass of the chain up to the model's answer: the scratchpad is
\* rendered from intermediate_steps, the prompt is filled and llm answers.
Plan(text) ==
    /\ pc = "Loop"
    /\ ShouldContinue(iterations)
    /\ llm_output' = text
    /\ llm_calls' = llm_calls + 1
    /\ llm_log' = Append(llm_log, [prompt |-> Prompt, output |-> text])
    /\ pc' = "Parsing"
    /\ UNCHANGED <<input, intermediate_steps, iterations, pending, returned,
                   raised, dispatched, qa_calls,
                   other, overlap>>

\* a plausible slip: the finish recorded as one more step, the loop going on
Finish_GoesOn ==
    /\ pc = "Parsing"
    /\ IsAgentFinish(llm_output)
    /\ intermediate_steps' =
           Append(intermediate_steps,
                  AgentStep(AgentAction(llm_output), llm_output.action_input))
    /\ iterations' = iterations + 1
    /\ pc' = "Loop"
    /\ UNCHANGED <<input, llm_output, pending, returned, raised, dispatched,
                   llm_calls, qa_calls,
                   llm_log, other, overlap>>

\* The parser yields an AgentFinish: invoke returns its output.
Finish ==
    /\ pc = "Parsing"
    /\ IsAgentFinish(llm_output)
    /\ returned' = Return(AgentFinish(llm_output).output, intermediate_steps)
    /\ pc' = "Done"
    /\ UNCHANGED <<input, intermediate_steps, iterations, llm_output, pending,
                   raised, dispatched, llm_calls, qa_calls,
                   llm_log, other, overlap>>

\* a plausible slip: handle_parsing_errors left out, so the parser's
\* exception leaves invoke
HandleParsingError_Unhandled ==
    /\ pc = "Parsing"
    /\ ParseFails(llm_output)
    /\ raised' = "ValueError"
    /\ pc' = "Raised"
    /\ UNCHANGED <<input, intermediate_steps, iterations, llm_output, pending,
                   returned, dispatched, llm_calls, qa_calls,
                   llm_log, other, overlap>>

\* a plausible slip: retries after a parsing error kept out of the count
HandleParsingError_Uncounted ==
    /\ pc = "Parsing"
    /\ ParseFails(llm_output)
    /\ intermediate_steps' =
           Append(intermediate_steps,
                  AgentStep(ExceptionAction(llm_output), ParseErrorObservation))
    /\ pc' = "Loop"
    /\ UNCHANGED <<input, iterations, llm_output, pending, returned, raised,
                   dispatched, llm_calls, qa_calls,
                   llm_log, other, overlap>>

\* The parser raises OutputParserException and handle_parsing_errors=True
\* turns it into a step of the pseudo tool _Exception.
HandleParsingError ==
    /\ pc = "Parsing"
    /\ ParseFails(llm_output)
    /\ intermediate_steps' =
           Append(intermediate_steps,
                  AgentStep(ExceptionAction(llm_output), ParseErrorObservation))
    /\ iterations' = iterations + 1
    /\ pc' = "Loop"
    /\ UNCHANGED <<input, llm_output, pending, returned, raised, dispatched,
                   llm_calls, qa_calls,
                   llm_log, other, overlap>>

\* The action names no entry of tools: InvalidTool answers in its place.
InvalidToolStep ==
    /\ pc = "Parsing"
    /\ IsAgentAction(llm_output)
    /\ AgentAction(llm_output).tool \notin Registered
    /\ intermediate_steps' =
           Append(intermediate_steps,
                  AgentStep(AgentAction(llm_output),
                            InvalidToolObservation(AgentAction(llm_output).tool)))
    /\ iterations' = iterations + 1
    /\ pc' = "Loop"
    /\ UNCHANGED <<input, llm_output, pending, returned, raised, dispatched,
                   llm_calls, qa_calls,
                   llm_log, other, overlap>>

\* a plausible slip: the rule "always try VectorStoreSearch first" made part of
\* the dispatch, so that the first tool call of a query is always that tool
CallTool_VectorFirst ==
    /\ pc = "Parsing"
    /\ IsAgentAction(llm_output)
    /\ AgentAction(llm_output).tool \in Registered
    /\ AgentAction(llm_output).tool_input # EmptyDict
    /\ pending' = [AgentAction(llm_output) EXCEPT
                      !.tool = IF dispatched = <<>> THEN ToolNames[1] ELSE @]
    /\ dispatched' = Append(dispatched,
                            [tool |-> IF dispatched = <<>> THEN ToolNames[1]
                                      ELSE AgentAction(llm_output).tool,
                             tool_input |-> AgentAction(llm_output).tool_input])
    /\ pc' = "Acting"
    /\ UNCHANGED <<input, intermediate_steps, iterations, llm_output, returned,
                   raised, llm_calls, qa_calls,
                   llm_log, other, overlap>>

\* The action names an entry of tools and carries a string: the Tool's func
\* (vector_search_tool or web_search_tool_func) is called with it.
CallTool ==
    /\ pc = "Parsing"
    /\ IsAgentAction(llm_output)
    /\ AgentAction(llm_output).tool \in Registered
    /\ AgentAction(llm_output).tool_input # EmptyDict
    /\ pending' = AgentAction(llm_output)
    /\ dispatched' = Append(dispatched,
                            [tool |-> AgentAction(llm_output).tool,
                             tool_input |-> AgentAction(llm_output).tool_input])
    /\ pc' = "Acting"
    /\ UNCHANGED <<input, intermediate_steps, iterations, llm_output, returned,
                   raised, llm_calls, qa_calls,
                   llm_log, other, overlap>>

\* The action names an entry of tools but has no action_input: the Tool is
\* run with {} and, being a single-input Tool, raises before its func is
\* reached; no handle_tool_error is set, so the exception leaves invoke.
CallToolNoInput ==
    /\ pc = "Parsing"
    /\ IsAgentAction(llm_output)
    /\ AgentAction(llm_output).tool \in Registered
    /\ AgentAction(llm_output).tool_input = EmptyDict
    /\ dispatched' = Append(dispatched,
                            [tool |-> AgentAction(llm_output).tool,
                             tool_input |-> EmptyDict])
    /\ raised' = "ToolException"
    /\ pc' = "Raised"
    /\ UNCHANGED <<input, intermediate_steps, iterations, llm_output, pending,
                   returned, llm_calls, qa_calls,
                   llm_log, other, overlap>>

\* a plausible slip: the list of steps rebuilt from the newest step alone
ToolReturn_KeepLast(r) ==
    /\ pc = "Acting"
    /\ intermediate_steps' = <<AgentStep(pending, r)>>
    /\ iterations' = iterations + 1
    /\ qa_calls' = IF pending.tool = ToolNames[1] THEN qa_calls + 1 ELSE qa_calls
    /\ pending' = NoAction
    /\ pc' = "Loop"
    /\ UNCHANGED <<input, llm_output, returned, raised, dispatched, llm_calls,
                   llm_log, other, overlap>>

\* a plausible slip: the step of a tool call recorded twice
ToolReturn_Duplicate(r) ==
    /\ pc = "Acting"
    /\ intermediate_steps' = intermediate_steps \o
                                <<AgentStep(pending, r), AgentStep(pending, r)>>
    /\ iterations' = iterations + 1
    /\ qa_calls' = IF pending.tool = ToolNames[1] THEN qa_calls + 1 ELSE qa_calls
    /\ pending' = NoAction
    /\ pc' = "Loop"
    /\ UNCHANGED <<input, llm_output, returned, raised, dispatched, llm_calls,
                   llm_log, other, overlap>>

\* a plausible change: web_search answering through a chain of llm as well
ToolReturn_WebAsksLlm(r) ==
    /\ pc = "Acting"
    /\ intermediate_steps' = Append(intermediate_steps, AgentStep(pending, r))
    /\ iterations' = iterations + 1
    /\ qa_calls' = qa_calls + 1
    /\ pending' = NoAction
    /\ pc' = "Loop"
    /\ UNCHANGED <<input, llm_output, returned, raised, dispatched, llm_calls,
                   llm_log, other, overlap>>

\* vector_search / web_search returns r: the step is recorded and the
\* iteration is counted.  vector_search has called llm once (RetrievalQA).
ToolReturn(r) ==
    /\ pc = "Acting"
    /\ intermediate_steps' = Append(intermediate_steps, AgentStep(pending, r))
    /\ iterations' = iterations + 1
    /\ qa_calls' = IF pending.tool = ToolNames[1] THEN qa_calls + 1 ELSE qa_calls
    /\ pending' = NoAction
    /\ pc' = "Loop"
    /\ UNCHANGED <<input, llm_output, returned, raised, dispatched, llm_calls,
                   llm_log, other, overlap>>

\* a plausible change: the failure turned into an observation, the loop going on
ToolRaise_Observed ==
    /\ pc = "Acting"
    /\ intermediate_steps' =
           Append(intermediate_steps, AgentStep(pending, "AdapterError"))
    /\ iterations' = iterations + 1
    /\ pending' = NoAction
    /\ pc' = "Loop"
    /\ UNCHANGED <<input, llm_output, returned, raised, dispatched, llm_calls,
                   qa_calls,
                   llm_log, other, overlap>>

\* vector_search / web_search raises (network, key, quota): nothing between
\* the tool function and invoke catches it.
ToolRaise ==
    /\ pc = "Acting"
    /\ raised' = "AdapterError"
    /\ pc' = "Raised"
    /\ UNCHANGED <<input, intermediate_steps, iterations, llm_output, pending,
                   returned, dispatched, llm_calls, qa_calls,
                   llm_log, other, overlap>>

\* The loop condition fails: the forced stop response is returned.
ReturnStopped ==
    /\ pc = "Loop"
    /\ ~ShouldContinue(iterations)
    /\ returned' = Return(StopMessage, intermediate_steps)
    /\ pc' = "Done"
    /\ UNCHANGED <<input, intermediate_steps, iterations, llm_output, pending,
                   raised, dispatched, llm_calls, qa_calls,
                   llm_log, other, overlap>>

Next ==
    \/ \E q \in QueryInputs : Invoke(q)
    \/ \E text \in LLMOutputs : Plan(text)
    \/ Finish
    \/ HandleParsingError
    \/ InvalidToolStep
    \/ CallTool
    \/ CallToolNoInput
    \/ \E r \in Results : ToolReturn(r)
    \/ ToolRaise
    \/ ReturnStopped

Spec == Init /\ [][Next]_vars

\* invoke is one sequential call: whatever step is possible is taken.
FairSpec == Spec /\ WF_vars(Next)

\* --------------------------------------- two invokes of agent_executor
\* The locals of the invoke that is running.
Frame ==
    [pc |-> pc, input |-> input, intermediate_steps |-> intermediate_steps,
     iterations |-> iterations, llm_output |-> llm_output, pending |-> pending,
     returned |-> returned, raised |-> raised, dispatched |-> dispatched,
     llm_log |-> llm_log]

\* a plausible slip: the steps kept on the executor and carried over
InvokeAgain_KeepsSteps(q) ==
    /\ pc # "Idle"
    /\ other = IdleFrame
    /\ other' = Frame
    /\ overlap' = IF pc \in {"Done", "Raised"} THEN "after" ELSE "during"
    /\ input' = q
    /\ intermediate_steps' = intermediate_steps
    /\ iterations' = 0
    /\ llm_output' = NoOutput
    /\ pending' = NoAction
    /\ returned' = NotReturned
    /\ raised' = ""
    /\ dispatched' = <<>>
    /\ llm_log' = <<>>
    /\ pc' = "Loop"
    /\ UNCHANGED <<llm_calls, qa_calls>>

\* a plausible slip: the count of iterations kept on the executor
InvokeAgain_KeepsIterations(q) ==
    /\ pc # "Idle"
    /\ other = IdleFrame
    /\ other' = Frame
    /\ overlap' = IF pc \in {"Done", "Raised"} THEN "after" ELSE "during"
    /\ input' = q
    /\ intermediate_steps' = <<>>
    /\ iterations' = iterations
    /\ llm_output' = NoOutput
    /\ pending' = NoAction
    /\ returned' = NotReturned
    /\ raised' = ""
    /\ dispatched' = <<>>
    /\ llm_log' = <<>>
    /\ pc' = "Loop"
    /\ UNCHANGED <<llm_calls, qa_calls>>

\* A second agent_executor.invoke({"input": q}) on the same executor, after
\* the first has ended or while it runs: it begins with locals of its own
\* (no steps, no iterations); the first invoke's locals stay its own.
InvokeAgain(q) ==
    /\ pc # "Idle"
    /\ other = IdleFrame
    /\ other' = Frame
    /\ overlap' = IF pc \in {"Done", "Raised"} THEN "after" ELSE "during"
    /\ input' = q
    /\ intermediate_steps' = <<>>
    /\ iterations' = 0
    /\ llm_output' = NoOutput
    /\ pending' = NoAction
    /\ returned' = NotReturned
    /\ raised' = ""
    /\ dispatched' = <<>>
    /\ llm_log' = <<>>
    /\ pc' = "Loop"
    /\ UNCHANGED <<llm_calls, qa_calls>>

\* a plausible slip: one list of steps shared by the two invokes
Switch_SharedSteps ==
    /\ other.pc \notin {"Idle", "Done", "Raised"}
    /\ other' = Frame
    /\ pc' = other.pc
    /\ input' = other.input
    /\ intermediate_steps' = intermediate_steps
    /\ iterations' = other.iterations
    /\ llm_output' = other.llm_output
    /\ pending' = other.pending
    /\ returned' = other.returned
    /\ raised' = other.raised
    /\ dispatched' = other.dispatched
    /\ llm_log' = other.llm_log
    /\ UNCHANGED <<llm_calls, qa_calls, overlap>>

\* The other invoke, if it has work left, runs next: each invoke goes on
\* with its own locals, whatever the other did in between.
Switch ==
    /\ other.pc \notin {"Idle", "Done", "Raised"}
    /\ other' = Frame
    /\ pc' = other.pc
    /\ input' = other.input
    /\ intermediate_steps' = other.intermediate_steps
    /\ iterations' = other.iterations
    /\ llm_output' = other.llm_output
    /\ pending' = other.pending
    /\ returned' = other.returned
    /\ raised' = other.raised
    /\ dispatched' = other.dispatched
    /\ llm_log' = other.llm_log
    /\ UNCHANGED <<llm_calls, qa_calls, overlap>>

\* the answers of a stand-in llm: a rejected text, each tool, Final Answer
StubOutputs ==
    {InvalidJSON,
     [json |-> TRUE, action |-> "VectorStoreSearch", action_input |-> "i1"],
     [json |-> TRUE, action |-> "WebSearch", action_input |-> "i2"],
     [json |-> TRUE, action |-> FinalAnswer, action_input |-> "i1"]}

\* tools without state: the same call gives the same result every time
StubResult(action) == IF action.tool = ToolNames[1] THEN "r1" ELSE "r2"

TwoNext ==
    \/ \E q \in QueryInputs : Invoke(q)
    \/ \E q \in QueryInputs : InvokeAgain(q)
    \/ Switch
    \/ \E text \in StubOutputs : Plan(text)
    \/ Finish
    \/ HandleParsingError
    \/ CallTool
    \/ ToolReturn(StubResult(pending))
    \/ ReturnStopped

TwoSpec == Init /\ [][TwoNext]_vars

\* ------------------------------------------------- vocabulary of the claims
Last(s) == s[Len(s)]

IsToolStep(step) == step.action.tool \in Registered

\* the tool.run calls that the recorded steps stand for, in order
ToolCalls(steps) ==
    LET sel == SelectSeq(steps, IsToolStep)
    IN  [i \in 1..Len(sel) |->
            [tool |-> sel[i].action.tool, tool_input |-> sel[i].action.tool_input]]

CallOf(action) == [tool |-> action.tool, tool_input |-> action.tool_input]

\* an output that is one JSON object naming an entry of tools, with its input
ValidToolOutput(text) ==
    text.json /\ text.action \in Registered /\ text.action_input \in GivenInputs

\* the last output has been acted upon
Handled == llm_calls > 0 /\ pc \notin {"Idle", "Parsing"}

FinishedByFinalAnswer == pc = "Done" /\ IsAgentFinish(llm_output)

StoppedByLimit == pc = "Done" /\ ~IsAgentFinish(llm_output)

\* C1: an output that is a valid action naming VectorStoreSearch or WebSearch
\* makes the loop call exactly that tool once with exactly the given
\* action_input: the calls made are, in order, the calls of the recorded tool
\* steps plus the one under way; when the tool has returned, the last step
\* is that action with the tool's result as its observation; and llm is not
\* called again while a call is without its observation.
C1_DispatchExactlyOnce ==
    /\ (Handled /\ ValidToolOutput(llm_output)) =>
          /\ pc = "Acting" =>
                /\ pending = AgentAction(llm_output)
                /\ dispatched = Append(ToolCalls(intermediate_steps),
                                       [tool |-> llm_output.action,
                                        tool_input |-> llm_output.action_input])
          /\ pc \in {"Loop", "Done"} =>
                /\ Len(intermediate_steps) > 0
                /\ Last(intermediate_steps).action.tool = llm_output.action
                /\ Last(intermediate_steps).action.tool_input = llm_output.action_input
                /\ Last(intermediate_steps).observation \in Results
                /\ dispatched = ToolCalls(intermediate_steps)
          /\ pc = "Raised" =>
                dispatched = Append(ToolCalls(intermediate_steps),
                                    [tool |-> llm_output.action,
                                     tool_input |-> llm_output.action_input])
    /\ pc = "Parsing" =>
          /\ dispatched = ToolCalls(intermediate_steps)
          /\ llm_calls = Len(intermediate_steps) + 1

C1_Witness ==
    /\ pc = "Loop"
    /\ Len(intermediate_steps) = 2
    /\ intermediate_steps[1].action.tool = "VectorStoreSearch"
    /\ intermediate_steps[2].action.tool = "WebSearch"
    /\ intermediate_steps[2].action.tool_input = "i2"
    /\ intermediate_steps[2].observation = "r2"
    /\ Len(dispatched) = 2

\* C2: a run that returns after a parsed "Final Answer" action returns that
\* action's action_input as its output, and that action caused no tool call:
\* the calls made are exactly those of the tool steps recorded before it.
C2_FinalAnswerOutput ==
    FinishedByFinalAnswer =>
        /\ returned.output = llm_output.action_input
        /\ dispatched = ToolCalls(intermediate_steps)
        /\ iterations = Len(intermediate_steps)

C2_Witness ==
    /\ FinishedByFinalAnswer
    /\ returned.output = "i2"
    /\ Len(intermediate_steps) = 1
    /\ IsToolStep(intermediate_steps[1])

\* C3 as stated: the run is done only through a parsed "Final Answer" action.
C3_DoneOnlyByFinalAnswer == pc = "Done" => IsAgentFinish(llm_output)

\* C3 as amended: the run is done either through a parsed "Final Answer"
\* action, whose action_input it returns, or because max_iterations
\* iterations were completed without one, and then it returns the fixed
\* stop message as its output; there is no third way.
C3_DoneByFinalAnswerOrLimit ==
    pc = "Done" =>
        \/ /\ IsAgentFinish(llm_output)
           /\ returned.output = llm_output.action_input
        \/ /\ ~IsAgentFinish(llm_output)
           /\ iterations = max_iterations
           /\ returned.output = StopMessage

C3_Witness ==
    /\ StoppedByLimit
    /\ returned.output = StopMessage
    /\ Len(intermediate_steps) = max_iterations

\* C4: when llm emits a "Final Answer" action at an iteration within the
\* budget, the run ends, and it ends at that iteration: the output once
\* parsed leads to the run being done with that action_input as output,
\* and in the done run that llm call is the last one made, one more than the
\* steps recorded, with no tool call beyond those of the recorded steps.
C4_TerminatesAtFinalAnswer ==
    /\ (pc = "Parsing" /\ IsAgentFinish(llm_output)) ~> FinishedByFinalAnswer
    /\ [](FinishedByFinalAnswer =>
            /\ llm_calls = Len(intermediate_steps) + 1
            /\ llm_calls <= max_iterations
            /\ dispatched = ToolCalls(intermediate_steps)
            /\ pending = NoAction)
    /\ [][(pc = "Parsing" /\ IsAgentFinish(llm_output)) =>
            (pc' = "Done" /\ llm_calls' = llm_calls /\ dispatched' = dispatched)]_vars

C4_Witness ==
    /\ FinishedByFinalAnswer
    /\ llm_calls = 3
    /\ Len(intermediate_steps) = 2
    /\ IsToolStep(intermediate_steps[1])
    /\ IsToolStep(intermediate_steps[2])

\* the outputs C5 calls malformed
Malformed(text) ==
    \/ ~text.json
    \/ text.action = Absent
    \/ text.action_input = Absent
    \/ text.action \notin Registered \cup {FinalAnswer}

\* a registered tool named without action_input
ToolWithoutInput(text) ==
    text.json /\ text.action \in Registered /\ text.action_input = Absent

\* the last step is the corrective step for the last output, and no tool
\* was called for it
CorrectedLastOutput ==
    /\ pc \in {"Loop", "Done"}
    /\ Len(intermediate_steps) > 0
    /\ Last(intermediate_steps).action =
          (IF ParseFails(llm_output) THEN ExceptionAction(llm_output)
           ELSE AgentAction(llm_output))
    /\ ~IsToolStep(Last(intermediate_steps))
    /\ Last(intermediate_steps).observation =
          IF ParseFails(llm_output) THEN ParseErrorObservation
          ELSE InvalidToolObservation(llm_output.action)
    /\ dispatched = ToolCalls(intermediate_steps)
    /\ iterations = Len(intermediate_steps)

\* C5 as stated: every malformed output, once acted upon, has caused no tool
\* call and has a corrective observation as the last step.
C5_MalformedNeverDispatched ==
    (Handled /\ Malformed(llm_output)) => CorrectedLastOutput

\* C5 as amended: an output that is not JSON, lacks the action key, is a
\* "Final Answer" without action_input, or names a tool that is not
\* registered causes no tool call and gets a corrective observation as the
\* next step (the parser's for the first three, InvalidTool's for the last);
\* an output naming a registered tool without action_input is not treated
\* as malformed: that tool is run with the empty input {}, the run raises
\* and no observation is appended.
C5_MalformedExceptToolWithoutInput ==
    /\ (Handled /\ Malformed(llm_output) /\ ~ToolWithoutInput(llm_output))
          => CorrectedLastOutput
    /\ (Handled /\ ToolWithoutInput(llm_output)) =>
          /\ pc = "Raised"
          /\ raised = "ToolException"
          /\ dispatched = Append(ToolCalls(intermediate_steps),
                                 [tool |-> llm_output.action, tool_input |-> EmptyDict])

C5_Witness ==
    /\ pc = "Raised"
    /\ raised = "ToolException"
    /\ Len(intermediate_steps) = 2
    /\ intermediate_steps[1].action.tool = ExceptionTool
    /\ intermediate_steps[2].action.tool \in UnknownTools
    /\ Len(dispatched) = 1

\* the steps recorded for outputs that were rejected: the parser's
\* _Exception steps and InvalidTool's steps
MalformedSteps(steps) == SelectSeq(steps, LAMBDA st : ~IsToolStep(st))

\* the run has ended right after a rejected output
EndedAfterMalformed ==
    /\ pc \in {"Done", "Raised"}
    /\ Len(intermediate_steps) > 0
    /\ ~IsToolStep(Last(intermediate_steps))
    /\ Last(intermediate_steps).action \in
          {ExceptionAction(llm_output), AgentAction(llm_output)}

\* C6 as stated: when the loop stops re-prompting after malformed outputs,
\* the caller gets the fatal error AgentStalled and no normal result.
C6_StalledIsFatal ==
    EndedAfterMalformed => (pc = "Raised" /\ raised = "AgentStalled")

\* C6 as amended: malformed outputs have no retry count of their own: each
\* one uses up one of the max_iterations iterations that tool actions use
\* too, so the steps for malformed outputs and for tool calls together
\* number the iterations and never exceed max_iterations; when the
\* iterations run out after a malformed output the run returns a normal
\* result whose output is the fixed stop message, and no AgentStalled
\* error is ever raised.
C6_MalformedShareIterations ==
    /\ Len(MalformedSteps(intermediate_steps))
          + Len(ToolCalls(intermediate_steps)) = iterations
    /\ iterations <= max_iterations
    /\ raised # "AgentStalled"
    /\ EndedAfterMalformed =>
          /\ pc = "Done"
          /\ iterations = max_iterations
          /\ returned.output = StopMessage

C6_Witness ==
    /\ EndedAfterMalformed
    /\ returned.output = StopMessage
    /\ IsToolStep(intermediate_steps[1])
    /\ Len(MalformedSteps(intermediate_steps)) = max_iterations - 1

\* C7 as stated: with no "Final Answer" emitted, the run that has used up
\* max_iterations iterations ends with the fatal error LoopBudgetExceeded,
\* not with a normal output.
C7_BudgetExceededIsFatal ==
    (iterations = max_iterations /\ pc \in {"Done", "Raised"}) =>
        (pc = "Raised" /\ raised = "LoopBudgetExceeded")

\* C7 as amended: with no "Final Answer" emitted, the run is stopped exactly
\* when max_iterations iterations are completed, not earlier and not later:
\* llm is asked and tools are run only while fewer are completed, a stopped
\* run has completed exactly max_iterations with that many llm calls; and
\* it ends by returning a normal output, the fixed stop message: no
\* LoopBudgetExceeded error is raised.
C7_StopsExactlyAtLimit ==
    /\ pc \in {"Parsing", "Acting"} => iterations < max_iterations
    /\ iterations <= max_iterations
    /\ llm_calls <= max_iterations
    /\ (pc = "Loop" /\ iterations = max_iterations) => llm_calls = max_iterations
    /\ StoppedByLimit =>
          /\ iterations = max_iterations
          /\ llm_calls = max_iterations
          /\ returned.output = StopMessage
    /\ raised # "LoopBudgetExceeded"

C7_Witness ==
    /\ StoppedByLimit
    /\ llm_calls = max_iterations
    /\ \A i \in 1..Len(intermediate_steps) : IsToolStep(intermediate_steps[i])
    /\ Len(intermediate_steps) = max_iterations

\* C8 as stated: a failing tool call does not crash the loop: no run ends
\* with the exception of the web-search or vector-store call.
C8_AdapterErrorObserved == ~(pc = "Raised" /\ raised = "AdapterError")

\* C8 as amended: when a tool's call raises, the loop does not retry it and
\* appends no observation for it: every observation of a tool step is a
\* string the tool returned, and the exception ends the run, which returns
\* nothing, with the failed call made once and its action still without a
\* step.
C8_AdapterErrorEndsRun ==
    /\ \A i \in 1..Len(intermediate_steps) :
          IsToolStep(intermediate_steps[i]) =>
              intermediate_steps[i].observation \in Results
    /\ (pc = "Raised" /\ raised = "AdapterError") =>
          /\ returned = NotReturned
          /\ pending # NoAction
          /\ dispatched = Append(ToolCalls(intermediate_steps), CallOf(pending))
          /\ iterations = Len(intermediate_steps)

C8_Witness ==
    /\ pc = "Raised"
    /\ raised = "AdapterError"
    /\ pending.tool = "WebSearch"
    /\ Len(intermediate_steps) = 1
    /\ intermediate_steps[1].action.tool = "VectorStoreSearch"

\* C9 as stated: the value returned on success holds the steps of the query
\* beside the output.
C9_ReturnsTranscript ==
    FinishedByFinalAnswer =>
        /\ "intermediate_steps" \in DOMAIN returned
        /\ returned.intermediate_steps = intermediate_steps

\* C9 as amended: the value returned on success holds the input and the
\* output string, and nothing else: the steps of the query are not in it.
C9_ReturnsInputAndOutputOnly ==
    FinishedByFinalAnswer =>
        /\ DOMAIN returned = {"input", "output"}
        /\ returned.input = input
        /\ returned.output = llm_output.action_input

C9_Witness ==
    /\ FinishedByFinalAnswer
    /\ Len(intermediate_steps) = 2
    /\ returned = [input |-> "q1", output |-> "i1"]

\* C10 as stated: a run that ends because its budget of retries or of
\* iterations ran out hands the steps recorded so far to the caller.
C10_FatalCarriesTranscript ==
    StoppedByLimit =>
        /\ "intermediate_steps" \in DOMAIN returned
        /\ returned.intermediate_steps = intermediate_steps

\* C10 as amended: no AgentStalled or LoopBudgetExceeded error exists: a run
\* whose iterations ran out returns a normal value holding only the input
\* and the stop message, and a run ended by a tool's exception returns
\* nothing; in neither case does the caller get the steps.
C10_NoOutcomeCarriesTranscript ==
    /\ StoppedByLimit => returned = [input |-> input, output |-> StopMessage]
    /\ pc = "Raised" =>
          /\ raised \in {"ToolException", "AdapterError"}
          /\ returned = NotReturned
    /\ pc \notin {"Done"} => returned = NotReturned

C10_Witness ==
    /\ StoppedByLimit
    /\ Len(intermediate_steps) = max_iterations
    /\ DOMAIN returned = {"input", "output"}
    /\ \E i \in 1..Len(intermediate_steps) : ~IsToolStep(intermediate_steps[i])

\* the tool calls made whose observation is not yet recorded
OpenActions == Len(dispatched) - Len(ToolCalls(intermediate_steps))

\* C11: within one query at most one action is open (its tool called, its
\* observation not yet recorded): calls never outnumber the recorded tool
\* steps by more than one, an action is open only while its tool call is
\* under way (or has raised), where it is the pending action, and llm is
\* asked for a decision, and an output is parsed, only with none open.
C11_AtMostOneOpenAction ==
    /\ Len(ToolCalls(intermediate_steps)) <= Len(dispatched)
    /\ OpenActions <= 1
    /\ pc \in {"Idle", "Loop", "Parsing", "Done"} =>
          (OpenActions = 0 /\ pending = NoAction)
    /\ pc = "Acting" =>
          (OpenActions = 1 /\ CallOf(pending) = Last(dispatched))

C11_Witness ==
    /\ pc = "Acting"
    /\ OpenActions = 1
    /\ Len(intermediate_steps) = 2
    /\ IsToolStep(intermediate_steps[1])
    /\ IsToolStep(intermediate_steps[2])

\* the last output was the first action of the query to name a tool of tools
FirstToolAction ==
    /\ Handled
    /\ ValidToolOutput(llm_output)
    /\ Len(ToolCalls(intermediate_steps)) = (IF pc \in {"Loop", "Done"} THEN 1 ELSE 0)

C14_VectorStoreBeforeWebSearch ==
    \A i \in 1..Len(dispatched) :
        dispatched[i].tool = "WebSearch" =>
            \E j \in 1..(i - 1) : dispatched[j].tool = "VectorStoreSearch"

\* sequence s is an initial part of sequence t
IsPrefix(s, t) == Len(s) <= Len(t) /\ SubSeq(t, 1, Len(s)) = s

\* C19: the steps of a query are append-only: every step of the loop leaves
\* the steps recorded before it in place, unchanged and in order, and adds
\* at most one.
C19_TranscriptAppendOnly ==
    [][/\ IsPrefix(intermediate_steps, intermediate_steps')
       /\ Len(intermediate_steps') <= Len(intermediate_steps) + 1]_vars

C19_Witness ==
    /\ pc = "Loop"
    /\ Len(intermediate_steps) = 3
    /\ IsToolStep(intermediate_steps[1])
    /\ ~IsToolStep(intermediate_steps[2])
    /\ IsToolStep(intermediate_steps[3])

\* a piece of the scratchpad that shows an observation
IsObservation(piece) == piece.prefix = "Observation: "

\* no two neighbouring pieces of the scratchpad are both observations
NoTwoObservations(pad) ==
    \A i \in 1..(Len(pad) - 1) : ~(IsObservation(pad[i]) /\ IsObservation(pad[i + 1]))

\* C12: the scratchpad shown to llm never holds two observations in a row,
\* also when outputs were rejected and answered with a corrective
\* observation: in every prompt sent, each observation comes right after
\* the log of the action it answers (for a rejected output, the log of the
\* step that stands for the rejected text), and the recorded steps are
\* whole (action, observation) pairs.
C12_NoConsecutiveObservations ==
    /\ \A k \in 1..Len(llm_log) :
          LET pad == llm_log[k].prompt.agent_scratchpad
          IN  /\ NoTwoObservations(pad)
              /\ \A i \in 1..Len(pad) :
                    IsObservation(pad[i]) =>
                        /\ i > 1
                        /\ ~IsObservation(pad[i - 1])
                        /\ i % 2 = 0
                        /\ pad[i - 1].log = intermediate_steps[i \div 2].action.log
                        /\ pad[i].text = intermediate_steps[i \div 2].observation
    /\ \A j \in 1..Len(intermediate_steps) :
          DOMAIN intermediate_steps[j] = {"action", "observation"}

C12_Witness ==
    /\ Len(llm_log) = 3
    /\ Len(llm_log[3].prompt.agent_scratchpad) = 4
    /\ intermediate_steps[1].observation = ParseErrorObservation
    /\ intermediate_steps[2].observation = InvalidToolObservation("Calculator")
    /\ IsObservation(llm_log[3].prompt.agent_scratchpad[2])
    /\ IsObservation(llm_log[3].prompt.agent_scratchpad[4])

\* C18: every prompt of a query carries the query's input unchanged and all
\* steps recorded so far, whole and in order: the k-th call of the chain is
\* given exactly the first k-1 steps, each as its action's log followed by
\* its observation, and every call made is one of the logged ones.
C18_PromptCarriesInputAndAllSteps ==
    /\ Len(llm_log) = llm_calls
    /\ Len(llm_log) <= Len(intermediate_steps) + 1
    /\ \A k \in 1..Len(llm_log) :
          LET pad == llm_log[k].prompt.agent_scratchpad
          IN  /\ llm_log[k].prompt.input = input
              /\ Len(pad) = 2 * (k - 1)
              /\ \A j \in 1..(k - 1) :
                    /\ pad[2 * j - 1].log = intermediate_steps[j].action.log
                    /\ pad[2 * j].text = intermediate_steps[j].observation
                    /\ ~IsObservation(pad[2 * j - 1])
                    /\ IsObservation(pad[2 * j])

C18_Witness ==
    /\ Len(llm_log) = 3
    /\ pc = "Parsing"
    /\ input = "q2"
    /\ Len(llm_log[3].prompt.agent_scratchpad) = 4
    /\ intermediate_steps[1] # intermediate_steps[2]

\* every output before the last named a tool of tools, with its input
OnlyValidToolActionsBeforeLast ==
    \A k \in 1..(Len(llm_log) - 1) : ValidToolOutput(llm_log[k].output)

\* C20: when llm gives valid tool actions and then a Final Answer, the
\* steps of the query are exactly one (action, observation) pair for each
\* tool action, in the order given, and nothing else: as many steps as
\* outputs before the last, step k being the k-th output's action with the
\* result of its tool, and exactly those tool calls made.
C20_OnePairPerToolAction ==
    (FinishedByFinalAnswer /\ OnlyValidToolActionsBeforeLast) =>
        /\ Len(intermediate_steps) = Len(llm_log) - 1
        /\ \A k \in 1..Len(intermediate_steps) :
              /\ intermediate_steps[k].action = AgentAction(llm_log[k].output)
              /\ intermediate_steps[k].observation \in Results
        /\ dispatched = ToolCalls(intermediate_steps)
        /\ Len(dispatched) = Len(intermediate_steps)

\* the three-output case: VectorStoreSearch, WebSearch, Final Answer
C20_Witness ==
    /\ FinishedByFinalAnswer
    /\ OnlyValidToolActionsBeforeLast
    /\ Len(llm_log) = 3
    /\ Len(intermediate_steps) = 2
    /\ intermediate_steps[1].action.tool = "VectorStoreSearch"
    /\ intermediate_steps[2].action.tool = "WebSearch"

\* the two invokes of agent_executor: the one running and the other
Frames == {Frame, other}

\* llm answered like a function of its prompt across the two invokes
SameAnswers ==
    \A k \in 1..Len(llm_log) : \A m \in 1..Len(other.llm_log) :
        llm_log[k].prompt = other.llm_log[m].prompt =>
            llm_log[k].output = other.llm_log[m].output

\* C15: with an llm that gives the same answer to the same prompt and tools
\* that give the same result to the same call, two invokes of the same
\* executor with the same input, the second after or during the first, end
\* with identical steps, identical prompts and answers, and the same
\* returned dict.
C15_SameInputSameRun ==
    (/\ pc = "Done"
     /\ other.pc = "Done"
     /\ input = other.input
     /\ SameAnswers) =>
        /\ intermediate_steps = other.intermediate_steps
        /\ llm_log = other.llm_log
        /\ dispatched = other.dispatched
        /\ returned = other.returned

C15_Witness ==
    /\ overlap = "after"
    /\ pc = "Done"
    /\ other.pc = "Done"
    /\ input = other.input
    /\ SameAnswers
    /\ Len(intermediate_steps) = 2
    /\ IsToolStep(intermediate_steps[1])
    /\ IsAgentFinish(llm_output)
    /\ returned = other.returned

\* the step that the k-th answer of invoke f leads to, f being alone
OwnStep(f, k) ==
    LET out == f.llm_log[k].output
    IN  IF ValidToolOutput(out)
        THEN AgentStep(AgentAction(out), StubResult(AgentAction(out)))
        ELSE AgentStep(ExceptionAction(out), ParseErrorObservation)

\* what invoke f returns from its own input and last answer, f being alone
OwnReturn(f) ==
    [input |-> f.input,
     output |-> IF IsAgentFinish(f.llm_output) THEN f.llm_output.action_input
                ELSE StopMessage]

\* C16: two invokes that run at the same time against the same tools do
\* not interfere, however their steps interleave: the steps of each are
\* exactly the steps its own answers lead to, in order, the tool calls of
\* each are those of its own steps plus its one under way, and what each
\* returns is what its own input and answers give when it runs alone.
C16_ConcurrentRunsDoNotInterfere ==
    \A f \in Frames :
        /\ Len(f.intermediate_steps) <= Len(f.llm_log)
        /\ Len(f.llm_log) <= Len(f.intermediate_steps) + 1
        /\ \A k \in 1..Len(f.intermediate_steps) :
              f.intermediate_steps[k] = OwnStep(f, k)
        /\ f.dispatched =
              ToolCalls(f.intermediate_steps) \o
                  (IF f.pc = "Acting" THEN <<CallOf(f.pending)>> ELSE <<>>)
        /\ f.iterations = Len(f.intermediate_steps)
        /\ f.pc = "Done" => f.returned = OwnReturn(f)
        /\ f.pc # "Done" => f.returned = NotReturned

\* both invokes in the middle of a tool call, each with a step of its own
C16_Witness ==
    /\ overlap = "during"
    /\ pc = "Acting"
    /\ other.pc = "Acting"
    /\ input # other.input
    /\ Len(intermediate_steps) = 1
    /\ Len(other.intermediate_steps) = 2
    /\ pending.tool # other.pending.tool
    /\ intermediate_steps[1] # other.intermediate_steps[1]

\* C17: every invoke begins with no steps and its own input only: its first
\* prompt has the input and an empty scratchpad, every later prompt has the
\* same input and two pieces for each of its own earlier answers, the logs
\* among them being those of its own steps; nothing of the other invoke,
\* ended before or not, is in its steps or prompts.
C17_InvokeStartsEmpty ==
    \A f \in Frames :
        /\ (f.pc = "Loop" /\ f.llm_log = <<>>) =>
              (f.intermediate_steps = <<>> /\ f.iterations = 0)
        /\ \A k \in 1..Len(f.llm_log) :
              LET pad == f.llm_log[k].prompt.agent_scratchpad
              IN  /\ f.llm_log[k].prompt.input = f.input
                  /\ k = 1 => pad = <<>>
                  /\ Len(pad) = 2 * (k - 1)
                  /\ \A j \in 1..(k - 1) :
                        pad[2 * j - 1].log \in
                            {AgentAction(f.llm_log[j].output).log,
                             ExceptionAction(f.llm_log[j].output).log}

\* a second invoke, begun after the first ended with steps, at its 2nd call
C17_Witness ==
    /\ overlap = "after"
    /\ other.pc = "Done"
    /\ Len(other.intermediate_steps) = 3
    /\ input # other.input
    /\ Len(llm_log) = 2
    /\ Len(intermediate_steps) = 1
    /\ intermediate_steps[1] # other.intermediate_steps[1]

\* the recorded steps whose action names the given tool
StepsOf(tool, steps) == SelectSeq(steps, LAMBDA st : st.action.tool = tool)

\* C21: a WebSearch call makes no call of llm: llm has been called inside a
\* tool once for each recorded VectorStoreSearch step and never for a
\* WebSearch step, whose observation is the result web_search returned;
\* every other call of llm is one of the loop's own, one for each prompt
\* logged, at most one more than the steps recorded.
C21_WebSearchCallsNoLlm ==
    /\ qa_calls = Len(StepsOf("VectorStoreSearch", intermediate_steps))
    /\ llm_calls = Len(llm_log)
    /\ llm_calls <= Len(intermediate_steps) + 1
    /\ \A j \in 1..Len(intermediate_steps) :
          intermediate_steps[j].action.tool = "WebSearch" =>
              /\ intermediate_steps[j].observation \in Results
              /\ intermediate_steps[j].action = AgentAction(llm_log[j].output)

C21_Witness ==
    /\ pc = "Loop"
    /\ Len(intermediate_steps) = 2
    /\ intermediate_steps[1].action.tool = "VectorStoreSearch"
    /\ intermediate_steps[2].action.tool = "WebSearch"
    /\ qa_calls = 1
    /\ llm_calls = 2

\* llm has answered, and every answer so far named a tool of tools
AlwaysToolActions ==
    /\ Len(llm_log) >= 1
    /\ \A k \in 1..Len(llm_log) : ValidToolOutput(llm_log[k].output)

\* C22 as stated: the loop has no limit of iterations, so a run in which llm
\* only ever gives valid tool actions never ends.
C22_NeverEndsWithoutFinalAnswer ==
    AlwaysToolActions => pc # "Done"

\* C22, amended: the executor's limit of iterations applies: a run in which
\* llm only ever gives valid tool actions asks llm and calls a tool at most
\* max_iterations times, and with tools that return it ends, right after
\* the max_iterations-th step, returning the stop message as its output.
C22_ToolActionsOnlyStopAtLimit ==
    AlwaysToolActions =>
        /\ llm_calls <= max_iterations
        /\ Len(dispatched) <= max_iterations
        /\ Len(intermediate_steps) <= max_iterations
        /\ pc = "Done" =>
              /\ Len(intermediate_steps) = max_iterations
              /\ Len(dispatched) = max_iterations
              /\ \A j \in 1..Len(intermediate_steps) : IsToolStep(intermediate_steps[j])
              /\ returned = [input |-> input, output |-> StopMessage]

C22_Witness ==
    /\ AlwaysToolActions
    /\ pc = "Done"
    /\ Len(llm_log) = max_iterations
    /\ returned.output = StopMessage
    /\ intermediate_steps[1].action.tool = "VectorStoreSearch"
    /\ Last(intermediate_steps).action.tool = "WebSearch"

\* an output of several blobs whose first blob names a tool of tools
ToolFirstMultiBlob(text) == "rest" \in DOMAIN text /\ text.action \in Registered

\* C23: each output of llm causes at most one tool call, and of an output
\* of several blobs only the first is acted upon: when the first blob is a
\* tool action followed by a made-up observation and a Final Answer, that
\* one tool is called with the first blob's input, the step recorded is
\* the first blob's action with the tool's own result (not the made-up
\* one), llm is asked again, and the Final Answer inside that output is
\* not returned.
C23_FirstBlobOnly ==
    /\ Len(dispatched) <= Len(llm_log)
    /\ \A k \in 1..Len(intermediate_steps) :
          ToolFirstMultiBlob(llm_log[k].output) =>
              /\ intermediate_steps[k].action.tool = llm_log[k].output.action
              /\ intermediate_steps[k].action.tool_input =
                    llm_log[k].output.action_input
              /\ intermediate_steps[k].action.log = llm_log[k].output
              /\ intermediate_steps[k].observation \in Results
              /\ intermediate_steps[k].observation # InventedObservation
    /\ (Handled /\ ToolFirstMultiBlob(llm_output)) =>
          /\ Len(dispatched) >= 1
          /\ Last(dispatched) = [tool |-> llm_output.action,
                                 tool_input |-> llm_output.action_input]
          /\ Len(dispatched) =
                Len(ToolCalls(intermediate_steps)) +
                    (IF pc \in {"Acting", "Raised"} THEN 1 ELSE 0)
          /\ pc = "Done" =>
                /\ returned.output = StopMessage
                /\ returned.output # llm_output.rest[Len(llm_output.rest)].action_input

\* after the first recorded run's first output: the tool has returned its
\* own result and llm is to be asked again
C23_Witness ==
    /\ pc = "Loop"
    /\ llm_calls = 1
    /\ ToolFirstMultiBlob(llm_output)
    /\ llm_output.action = "VectorStoreSearch"
    /\ llm_output.rest[2].action = FinalAnswer
    /\ Len(dispatched) = 1
    /\ Len(intermediate_steps) = 1
    /\ intermediate_steps[1].observation = "r1"
    /\ returned = NotReturned

====
